---- MODULE Spec2Model ----
(***************************************************************************)
(* Model of the load balancer of server/src/balancer.rs: the two node      *)
(* registries (lm_studio_nodes, ollama_nodes), the request handler         *)
(* handle_service_request (admission loop and dispatch), the UDP discovery *)
(* listener and the cleanup task.                                          *)
(*                                                                         *)
(* Time is in milliseconds.  Every step of the model is one run of a task  *)
(* between two suspension points (.await); a registry operation takes the  *)
(* registry's write lock for its whole duration, so it is one step.        *)
(***************************************************************************)
EXTENDS Integers, Sequences, FiniteSets, TLC

(***************************************************************************)
(* Bounds of the model.                                                    *)
(***************************************************************************)
\* node ids that announce themselves (Spec, SpecJanitor)
MaxNodes == 2
\* node ids that announce themselves, each for both services (SpecRace)
MaxRaceNodes == 1
\* nodes that announce themselves in Spec
MaxLiveNodes == 1
\* nodes of the fixed registry of SpecFixed
MaxFixedNodes == 3
\* requests handled during one run (Spec, SpecAdmission)
MaxRequests == 1
\* requests handled during one run (SpecRace, SpecFixed)
MaxRacers == 2
\* observations of the coarse clock (Tick)
MaxTicks == 1
\* milliseconds between two observations of the coarse clock (Tick)
TimeStep == 40000
\* the exact clock (ExactTick) runs for this many cleanup intervals
MaxPasses == 3
\* milliseconds between two instants at which the environment can act under
\* the exact clock (ExactTick)
ExactStep == 5000
\* under the exact clock requests arrive during the first MaxArrivalPolls
\* poll intervals
MaxArrivalPolls == 1

IdName == <<"n1", "n2", "n3", "n4", "n5">>
NodeIds == {IdName[i] : i \in 1..MaxNodes}
RaceIds == {IdName[i] : i \in 1..MaxRaceNodes}
LiveIds == {IdName[i] : i \in 1..MaxLiveNodes}
FixedIds == {IdName[i] : i \in 1..MaxFixedNodes}
AllIds == NodeIds \cup RaceIds \cup FixedIds \cup LiveIds
Requests == 1..MaxRequests
Racers == 1..MaxRacers
AllRequests == Requests \cup Racers
MaxTime == MaxTicks * TimeStep

(***************************************************************************)
(* Program constants.                                                      *)
(***************************************************************************)
\* run_balancer: queue_timeout = Duration::from_secs(30)
queue_timeout == 30000
\* run_balancer: queue_poll_interval = Duration::from_millis(200)
queue_poll_interval == 200
\* run_balancer: node_inactivity_timeout = Duration::from_secs(35)
node_inactivity_timeout == 35000
\* run_balancer: cleanup_interval = Duration::from_secs(30)
cleanup_interval == 30000

\* the two registries of AppState, named by their wire service type
Classes == {"lmstudio", "ollama"}

\* service_name passed by lm_studio_handler / ollama_handler
service_name(c) == IF c = "lmstudio" THEN "LM Studio" ELSE "Ollama"

(***************************************************************************)
(* NodeHealth and NodeInfo.                                                *)
(***************************************************************************)
\* NodeHealth.  The Instant of Failed(Instant) is read by terminal_ui only,
\* which is outside the model; the model keeps the variant.
Available == [tag |-> "Available"]
Busy == [tag |-> "Busy"]
Failed(t) == [tag |-> "Failed"]

NodeInfo(st, url, seen) == [state |-> st, service_url |-> url, last_seen |-> seen]

\* HashMap::new()
EmptyMap == [id \in {} |-> Available]

\* HashMap::insert(key, value)
insert(m, key, value) ==
    [id \in DOMAIN m \cup {key} |-> IF id = key THEN value ELSE m[id]]

(***************************************************************************)
(* URLs.  A string that Url::parse accepts with a host is a record of the  *)
(* scheme, host, port and path written in it (port 0: none written, path  *)
(* "": none written); any other string is a record with the field raw     *)
(* only.                                                                   *)
(***************************************************************************)
Url(scheme, host, port, path) ==
    [scheme |-> scheme, host |-> host, port |-> port, path |-> path]

AnnouncedUrls ==
    { Url("http", "localhost", 1234, "/v1"),
      Url("http", "10.0.0.5", 8000, "/v1"),
      Url("http", "127.0.0.1", 80, ""),
      [raw |-> "v1/api"] }

SourceIps == {"192.168.1.7"}

NoUrl == [raw |-> ""]

\* Url::parse(&announced_service_url) is Ok
url_parses(u) == "host" \in DOMAIN u

\* the port a scheme implies
default_port(scheme) ==
    IF scheme = "http" THEN 80 ELSE IF scheme = "https" THEN 443 ELSE 0

\* Url::parse: the parsed URL holds no port when the written one is the
\* scheme's default, and the path "/" when none is written
Url_parse(u) ==
    [scheme |-> u.scheme,
     host |-> u.host,
     port |-> IF u.port = default_port(u.scheme) THEN 0 ELSE u.port,
     path |-> IF u.path = "" THEN "/" ELSE u.path]

\* host_str == "localhost" || host_str == "127.0.0.1"
is_loopback(host_str) == host_str \in {"localhost", "127.0.0.1"}

\* a bug: set_host that also loses the path
set_host_root(parsed_url, host) == [parsed_url EXCEPT !.host = host, !.path = "/"]

\* parsed_url.set_host(Some(&source_ip)), source_ip an IPv4 address
set_host(parsed_url, host) == [parsed_url EXCEPT !.host = host]

\* parsed_url.to_string(): the string that writes the parsed components
to_string(parsed_url) ==
    Url(parsed_url.scheme, parsed_url.host, parsed_url.port, parsed_url.path)

\* udp_discovery_listener: the effective URL of an announcement
effective_service_url(announced, source_ip) ==
    IF url_parses(announced) /\ is_loopback(Url_parse(announced).host)
    THEN to_string(set_host(Url_parse(announced), source_ip))
    ELSE announced

(***************************************************************************)
(* Datagrams: the parts of msg.trim().splitn(4, ','), and the source.     *)
(***************************************************************************)
Datagrams ==
    { [parts |-> <<"DISCOVER", st, id, u>>, src |-> ip] :
        st \in Classes \cup {"other"}, id \in AllIds \cup {""},
        u \in AnnouncedUrls, ip \in SourceIps }
    \cup
    { [parts |-> <<"HELLO", "lmstudio", IdName[1], u>>, src |-> ip] :
        u \in AnnouncedUrls, ip \in SourceIps }
    \cup
    { [parts |-> <<"DISCOVER", "lmstudio", IdName[1]>>, src |-> ip] :
        ip \in SourceIps }

\* parts.len() == 4 && parts[0] == "DISCOVER"
is_discover(parts) == Len(parts) = 4 /\ parts[1] = "DISCOVER"

\* a bug: every known service type selects lm_studio_nodes
nodes_lock_of_first(service_type) ==
    IF service_type \in {"lmstudio", "ollama"} THEN "lmstudio" ELSE ""

\* match service_type: the registry the datagram is for, "" for none
nodes_lock_of(service_type) ==
    IF service_type = "lmstudio" THEN "lmstudio"
    ELSE IF service_type = "ollama" THEN "ollama"
    ELSE ""

(***************************************************************************)
(* Backend answers.                                                        *)
(***************************************************************************)
Statuses == {200, 299, 300, 500}
Bodies == {"ok", "boom"}
\* the answers of the backends in the specifications whose subject is the
\* registry, not the response
SomeStatuses == {200, 500}
SomeBodies == {"ok"}

\* a bug: redirections count as success
is_success_below_400(status) == status >= 200 /\ status < 400

\* StatusCode::is_success
is_success(status) == status >= 200 /\ status < 300

\* handle_service_request: new_health after a body read to completion
new_health(status, t) == IF is_success(status) THEN Available ELSE Failed(t)

\* a bug: the error branches release the node as Available
error_health_available(t) == Available

\* handle_service_request: the health passed to update_node_state in the
\* two error branches, NodeHealth::Failed(Instant::now())
error_health(t) == Failed(t)

\* HttpResponse::build(status).body(body)
HttpResponse(status, body) == [status |-> status, body |-> body]

ServiceUnavailable == 503
InternalServerError == 500

\* no response yet
NoResponse == [status |-> 0, body |-> ""]

VARIABLES
    nodes,          \* nodes[c]: the registry of class c, a map id -> NodeInfo
    now,            \* Instant::now()
    req,            \* req[r]: the task of request r (its locals and position)
    janitor,        \* the cleanup task: its position and its sleep's deadline
    removed_nodes,  \* the ids removed by the last call of remove_stale_nodes
    listener,       \* the discovery task: its position, its sleep's deadline
                    \* and its last call of nodes.insert (registry, key and
                    \* the service_url of the record insert returned)
    write_guards    \* write_guards[c]: the tasks that hold a
                    \* RwLockWriteGuard of the registry of class c

vars == <<nodes, now, req, janitor, removed_nodes, listener, write_guards>>

(***************************************************************************)
(* Registry operations of AppState.                                        *)
(***************************************************************************)
\* a bug: every entry that has not failed is taken, a Busy one too
is_not_failed(info) == info.state.tag # "Failed"

\* the predicate of find: matches!(info.state, NodeHealth::Available)
is_available(info) == info.state.tag = "Available"

\* a bug: when no entry is Available the entries are marked Busy all the same
find_and_occupy_node_touch(reg) ==
    LET found == {id \in DOMAIN reg : is_available(reg[id])}
    IN  IF found # {}
        THEN { [found |-> TRUE, unique_id |-> id,
                service_url |-> reg[id].service_url,
                nodes |-> [reg EXCEPT ![id].state = Busy]] : id \in found }
        ELSE { [found |-> FALSE, unique_id |-> "", service_url |-> NoUrl,
                nodes |-> [id \in DOMAIN reg |-> [reg[id] EXCEPT !.state = Busy]]] }

\* a bug: every Available entry is marked Busy, one is returned
find_and_occupy_node_all(reg) ==
    LET found == {id \in DOMAIN reg : is_available(reg[id])}
    IN  IF found # {}
        THEN { [found |-> TRUE, unique_id |-> id,
                service_url |-> reg[id].service_url,
                nodes |-> [i \in DOMAIN reg |->
                             IF i \in found THEN [reg[i] EXCEPT !.state = Busy]
                             ELSE reg[i]]] : id \in found }
        ELSE { [found |-> FALSE, unique_id |-> "", service_url |-> NoUrl,
                nodes |-> reg] }

\* AppState::find_and_occupy_node: the possible results.  HashMap iteration
\* order is arbitrary, so any Available entry can be the first one found.
find_and_occupy_node(reg) ==
    LET found == {id \in DOMAIN reg : is_available(reg[id])}
    IN  IF found # {}
        THEN { [found |-> TRUE, unique_id |-> id,
                service_url |-> reg[id].service_url,
                nodes |-> [reg EXCEPT ![id].state = Busy]] : id \in found }
        ELSE { [found |-> FALSE, unique_id |-> "", service_url |-> NoUrl,
                nodes |-> reg] }

\* a bug: the update resets the time the node was last heard
update_node_state_touch(reg, unique_node_id, health) ==
    IF unique_node_id \in DOMAIN reg
    THEN [reg EXCEPT ![unique_node_id].state = health,
                     ![unique_node_id].last_seen = 0]
    ELSE reg

\* a bug: the new health is not written
update_node_state_skip(reg, unique_node_id, health) == reg

\* a bug: an absent id gets a new entry
update_node_state_insert(reg, unique_node_id, health) ==
    IF unique_node_id \in DOMAIN reg
    THEN [reg EXCEPT ![unique_node_id].state = health]
    ELSE insert(reg, unique_node_id, NodeInfo(health, NoUrl, 0))

\* AppState::update_node_state
update_node_state(reg, unique_node_id, health) ==
    IF unique_node_id \in DOMAIN reg
    THEN [reg EXCEPT ![unique_node_id].state = health]
    ELSE reg

\* a bug: an entry is stale after twice the timeout
is_stale_twice(info, t, timeout) == t - info.last_seen > 2 * timeout

\* a bug: an entry as old as the timeout is stale
is_stale_inclusive(info, t, timeout) == t - info.last_seen >= timeout

\* remove_stale_nodes: is_stale of one entry
is_stale(info, t, timeout) == t - info.last_seen > timeout

\* a bug: a Busy entry is never removed
remove_stale_nodes_idle(reg, t, timeout) ==
    [id \in {i \in DOMAIN reg : \/ reg[i].state.tag = "Busy"
                                \/ ~(t - reg[i].last_seen > timeout)}
        |-> reg[id]]

\* remove_stale_nodes: the entries retained
remove_stale_nodes(reg, t, timeout) ==
    [id \in {i \in DOMAIN reg : ~is_stale(reg[i], t, timeout)} |-> reg[id]]

(***************************************************************************)
(* The request task: handle_service_request.  req[r] holds its position   *)
(* (pc) and its locals; a local that is not read again is reset when the   *)
(* task leaves the code that reads it.  updates is the list of the health  *)
(* tags the task has passed to update_node_state.                          *)
(***************************************************************************)
\* no task holds a write guard
NoGuards == [c \in Classes |-> {}]

\* udp_discovery_listener after UdpSocket::bind, nothing inserted yet
NoInsert == [registry |-> "", key |-> "", old |-> NoUrl]

IdleListener == [pc |-> "recv", wake_at |-> 0, inserted |-> NoInsert]

IdleRequest ==
    [pc |-> "idle", cls |-> "", start_time |-> 0, wake_at |-> 0,
     unique_node_id |-> "", node_service_url |-> NoUrl,
     response |-> NoResponse, outcome |-> "", returned |-> NoResponse,
     updates |-> <<>>]

Init ==
    /\ nodes = [c \in Classes |-> EmptyMap]
    /\ now = 0
    /\ req = [r \in AllRequests |-> IdleRequest]
    /\ janitor = [pc |-> "sleep", wake_at |-> cleanup_interval]
    /\ removed_nodes = {}
    /\ write_guards = NoGuards
    /\ listener = IdleListener

\* a bug: the poll interval is added to the timeout
timed_out_late(start_time, t) == t - start_time > queue_timeout + queue_poll_interval

\* a bug: the request gives up after half the queue timeout
timed_out_half(start_time, t) == 2 * (t - start_time) > queue_timeout

\* a bug: the queue timeout never expires
timed_out_never(start_time, t) == FALSE

\* handle_service_request: start_time.elapsed() > queue_timeout
timed_out(start_time, t) == t - start_time > queue_timeout

\* sleep(queue_poll_interval): the deadline of the sleep started at t
poll_deadline(t) == t + queue_poll_interval

\* the loop iteration of request r can run: it has just arrived, or its
\* sleep(queue_poll_interval) has completed
CanPoll(r) ==
    \/ req[r].pc = "admit"
    \/ req[r].pc = "sleep" /\ now >= req[r].wake_at

\* lm_studio_handler / ollama_handler: a request for class c arrives.
\* Requests are numbered in the order of their arrival.
Arrive(r, c) ==
    /\ req[r].pc = "idle"
    /\ \A q \in AllRequests : q < r => req[q].pc # "idle"
    /\ req' = [req EXCEPT ![r].pc = "admit", ![r].cls = c, ![r].start_time = now]
    /\ UNCHANGED <<nodes, now, janitor, removed_nodes, listener, write_guards>>

\* admission loop: find_and_occupy_node returned Some(found)
Occupy(r) ==
    /\ CanPoll(r)
    /\ \E res \in find_and_occupy_node(nodes[req[r].cls]) :
        /\ res.found
        /\ nodes' = [nodes EXCEPT ![req[r].cls] = res.nodes]
        /\ req' = [req EXCEPT ![r].pc = "send",
                              ![r].start_time = 0, ![r].wake_at = 0,
                              ![r].unique_node_id = res.unique_id,
                              ![r].node_service_url = res.service_url]
    /\ UNCHANGED <<now, janitor, removed_nodes, listener, write_guards>>

\* admission loop: None, and the queue timeout has elapsed: 503
NoCapacity(r) ==
    /\ CanPoll(r)
    /\ \E res \in find_and_occupy_node(nodes[req[r].cls]) :
        /\ ~res.found
        /\ timed_out(req[r].start_time, now)
        /\ nodes' = [nodes EXCEPT ![req[r].cls] = res.nodes]
        /\ req' = [req EXCEPT ![r].pc = "done", ![r].outcome = "NoCapacity",
                              ![r].wake_at = 0,
                              ![r].returned =
                                  HttpResponse(ServiceUnavailable, "No hay nodos disponibles")]
    /\ UNCHANGED <<now, janitor, removed_nodes, listener, write_guards>>

\* admission loop: None, and sleep(queue_poll_interval).await
SleepPoll(r) ==
    /\ CanPoll(r)
    /\ \E res \in find_and_occupy_node(nodes[req[r].cls]) :
        /\ ~res.found
        /\ ~timed_out(req[r].start_time, now)
        /\ nodes' = [nodes EXCEPT ![req[r].cls] = res.nodes]
        /\ req' = [req EXCEPT ![r].pc = "sleep",
                              ![r].wake_at = poll_deadline(now)]
    /\ UNCHANGED <<now, janitor, removed_nodes, listener, write_guards>>

\* forward_request(...).await is Ok(response): the backend has answered
\* with a status and a body that is still to be read
SendOk(r, status, body) ==
    /\ req[r].pc = "send"
    /\ req' = [req EXCEPT ![r].pc = "read", ![r].node_service_url = NoUrl,
                          ![r].response = [status |-> status, body |-> body]]
    /\ UNCHANGED <<nodes, now, janitor, removed_nodes, listener, write_guards>>

\* forward_request(...).await is Err(e)
SendErr(r) ==
    /\ req[r].pc = "send"
    /\ nodes' = [nodes EXCEPT ![req[r].cls] =
                    update_node_state(@, req[r].unique_node_id, error_health(now))]
    /\ req' = [req EXCEPT ![r].pc = "done", ![r].outcome = "BackendUnreachable",
                          ![r].node_service_url = NoUrl,
                          ![r].updates = Append(@, error_health(now).tag),
                          ![r].returned =
                              HttpResponse(InternalServerError, "Error reenviando")]
    /\ UNCHANGED <<now, janitor, removed_nodes, listener, write_guards>>

\* response.bytes().await is Ok(body_bytes)
ReadOk(r) ==
    /\ req[r].pc = "read"
    /\ LET status == req[r].response.status
           body_bytes == req[r].response.body
       IN  /\ nodes' = [nodes EXCEPT ![req[r].cls] =
                          update_node_state(@, req[r].unique_node_id,
                                            new_health(status, now))]
           /\ req' = [req EXCEPT ![r].pc = "done", ![r].outcome = "Forwarded",
                                 ![r].updates = Append(@, new_health(status, now).tag),
                                 ![r].returned = HttpResponse(status, body_bytes)]
    /\ UNCHANGED <<now, janitor, removed_nodes, listener, write_guards>>

\* response.bytes().await is Err(e)
ReadErr(r) ==
    /\ req[r].pc = "read"
    /\ nodes' = [nodes EXCEPT ![req[r].cls] =
                    update_node_state(@, req[r].unique_node_id, error_health(now))]
    /\ req' = [req EXCEPT ![r].pc = "done", ![r].outcome = "BackendReadError",
                          ![r].response = NoResponse,
                          ![r].updates = Append(@, error_health(now).tag),
                          ![r].returned =
                              HttpResponse(InternalServerError, "Error leyendo respuesta")]
    /\ UNCHANGED <<now, janitor, removed_nodes, listener, write_guards>>

\* the client disconnects: the request's future is dropped at the .await it
\* is suspended in (the admission sleep, the outbound send, the body read)
Cancel(r) ==
    /\ req[r].pc \in {"sleep", "send", "read"}
    /\ req' = [req EXCEPT ![r].pc = "cancelled", ![r].outcome = "Cancelled",
                          ![r].start_time = 0, ![r].wake_at = 0,
                          ![r].node_service_url = NoUrl,
                          ![r].response = NoResponse]
    /\ UNCHANGED <<nodes, now, janitor, removed_nodes, listener, write_guards>>

(***************************************************************************)
(* The discovery listener.                                                 *)
(***************************************************************************)
\* the registry a datagram is inserted into, "" when it is dropped
registry_of(d) ==
    IF is_discover(d.parts) THEN nodes_lock_of(d.parts[2]) ELSE ""

\* a bug: a record that exists is left as it is
upsert_keep(reg, unique_node_id, effective_url, t) ==
    IF unique_node_id \in DOMAIN reg THEN reg
    ELSE insert(reg, unique_node_id, NodeInfo(Available, effective_url, t))

\* a bug: the record is not stamped with the receipt time
upsert_epoch(reg, unique_node_id, effective_url, t) ==
    insert(reg, unique_node_id, NodeInfo(Available, effective_url, 0))

\* a bug: a record that exists keeps its health
upsert_keep_health(reg, unique_node_id, effective_url, t) ==
    insert(reg, unique_node_id,
           NodeInfo(IF unique_node_id \in DOMAIN reg
                    THEN reg[unique_node_id].state ELSE Available,
                    effective_url, t))

\* a bug: the record is inserted Busy
upsert_busy(reg, unique_node_id, effective_url, t) ==
    insert(reg, unique_node_id, NodeInfo(Busy, effective_url, t))

\* udp_discovery_listener: nodes.insert(unique_node_id, NodeInfo {...})
upsert(reg, unique_node_id, effective_url, t) ==
    insert(reg, unique_node_id, NodeInfo(Available, effective_url, t))

\* what nodes.insert returns: the service_url of the record it replaced
replaced_url(reg, unique_node_id) ==
    IF unique_node_id \in DOMAIN reg THEN reg[unique_node_id].service_url ELSE NoUrl

\* udp_discovery_listener: a datagram is received and inserted
Announce(d) ==
    /\ listener.pc = "recv"
    /\ registry_of(d) # ""
    /\ listener' = [listener EXCEPT !.inserted =
                        [registry |-> registry_of(d), key |-> d.parts[3],
                         old |-> replaced_url(nodes[registry_of(d)], d.parts[3])]]
    /\ nodes' = [nodes EXCEPT ![registry_of(d)] =
                    upsert(@, d.parts[3],
                           effective_service_url(d.parts[4], d.src), now)]
    /\ UNCHANGED <<now, req, janitor, removed_nodes, write_guards>>

\* a bug: the listener returns on a datagram it drops
Drop_returns(d) ==
    /\ listener.pc = "recv"
    /\ registry_of(d) = ""
    /\ listener' = [listener EXCEPT !.pc = "returned"]
    /\ UNCHANGED <<nodes, now, req, janitor, removed_nodes, write_guards>>

\* udp_discovery_listener: a datagram is received and dropped
Drop(d) ==
    /\ listener.pc = "recv"
    /\ registry_of(d) = ""
    /\ UNCHANGED vars

\* sleep(Duration::from_secs(1)) after a receive error
recv_error_delay == 1000

\* udp_discovery_listener: recv_from fails, the listener sleeps
RecvErr ==
    /\ listener.pc = "recv"
    /\ listener' = [listener EXCEPT !.pc = "sleep",
                                    !.wake_at = now + recv_error_delay]
    /\ UNCHANGED <<nodes, now, req, janitor, removed_nodes, write_guards>>

\* udp_discovery_listener: the sleep has completed, back to recv_from
RecvRetry ==
    /\ listener.pc = "sleep"
    /\ now >= listener.wake_at
    /\ listener' = [listener EXCEPT !.pc = "recv"]
    /\ UNCHANGED <<nodes, now, req, janitor, removed_nodes, write_guards>>

(***************************************************************************)
(* The cleanup task.                                                       *)
(***************************************************************************)
\* sleep(cleanup_interval): the deadline of the sleep started at t
cleanup_deadline(t) == t + cleanup_interval

\* sleep(cleanup_interval) has completed: the pass over lm_studio_nodes
CleanLmStudio ==
    /\ janitor.pc = "sleep"
    /\ now >= janitor.wake_at
    /\ nodes' = [nodes EXCEPT !["lmstudio"] =
                    remove_stale_nodes(@, now, node_inactivity_timeout)]
    /\ removed_nodes' = DOMAIN nodes["lmstudio"] \ DOMAIN nodes'["lmstudio"]
    /\ janitor' = [janitor EXCEPT !.pc = "ollama"]
    /\ UNCHANGED <<now, req, listener, write_guards>>

\* the pass over ollama_nodes, then the next sleep(cleanup_interval)
CleanOllama ==
    /\ janitor.pc = "ollama"
    /\ nodes' = [nodes EXCEPT !["ollama"] =
                    remove_stale_nodes(@, now, node_inactivity_timeout)]
    /\ removed_nodes' = DOMAIN nodes["ollama"] \ DOMAIN nodes'["ollama"]
    /\ janitor' = [pc |-> "sleep", wake_at |-> cleanup_deadline(now)]
    /\ UNCHANGED <<now, req, listener, write_guards>>

(***************************************************************************)
(* Time.  tokio::time::sleep completes no earlier than its deadline: with  *)
(* Tick the clock is observed every TimeStep ms and a sleeping task runs   *)
(* at the first observation at or after its deadline.                      *)
(***************************************************************************)
Tick ==
    /\ now + TimeStep <= MaxTime
    /\ now' = now + TimeStep
    /\ UNCHANGED <<nodes, req, janitor, removed_nodes, listener, write_guards>>

(***************************************************************************)
(* Time, exactly: every sleep completes at its deadline and a task that    *)
(* can run does so before the clock advances.  The clock stops at every    *)
(* deadline and, for the environment to act between deadlines, at least    *)
(* every ExactStep ms.                                                     *)
(***************************************************************************)
Deadlines ==
    {janitor.wake_at}
    \cup {req[r].wake_at : r \in {q \in AllRequests : req[q].pc = "sleep"}}
    \cup (IF listener.pc = "sleep" THEN {listener.wake_at} ELSE {})

Min(S) == CHOOSE x \in S : \A y \in S : x <= y

ExactTick ==
    /\ janitor.pc = "sleep"
    /\ \A r \in AllRequests : req[r].pc # "admit"
    /\ \A t \in Deadlines : t > now
    /\ now' = Min(Deadlines \cup {now + ExactStep})
    /\ now' <= MaxPasses * cleanup_interval
    /\ UNCHANGED <<nodes, req, janitor, removed_nodes, listener, write_guards>>

(***************************************************************************)
(* Environments.                                                           *)
(***************************************************************************)
\* the service a node announces when every node runs one service
service_of(id) ==
    IF \E i \in 1..Len(IdName) : i % 2 = 1 /\ IdName[i] = id
    THEN "lmstudio" ELSE "ollama"

\* one URL per node, not a loopback one
WellFormed(ids) ==
    { d \in Datagrams : /\ registry_of(d) # ""
                        /\ d.parts[3] \in ids
                        /\ url_parses(d.parts[4])
                        /\ ~is_loopback(Url_parse(d.parts[4]).host) }

\* datagrams the listener drops: a first field other than DISCOVER, three
\* fields, an unknown service type
DroppedDatagrams ==
    { d \in Datagrams :
        /\ registry_of(d) = ""
        /\ \/ Len(d.parts) # 4
           \/ /\ d.parts[3] = IdName[1]
              /\ d.parts[4] = Url("http", "10.0.0.5", 8000, "/v1") }

\* the datagrams of SpecJanitor: every node announces one service
OneServiceDatagrams ==
    { d \in WellFormed(NodeIds) : d.parts[2] = service_of(d.parts[3]) }

\* the datagrams of Spec
LiveDatagrams == { d \in OneServiceDatagrams : d.parts[3] \in LiveIds }

\* the datagrams of SpecRace: every node announces both services
RaceDatagrams == WellFormed(RaceIds)

(***************************************************************************)
(* Spec: the balancer with its discovery listener and its cleanup task,    *)
(* nodes that announce one service each, and the coarse clock.             *)
(***************************************************************************)
Next ==
    \/ \E r \in Requests, c \in Classes : Arrive(r, c)
    \/ \E r \in Requests : Occupy(r)
    \/ \E r \in Requests : NoCapacity(r)
    \/ \E r \in Requests : SleepPoll(r)
    \/ \E r \in Requests, status \in SomeStatuses, body \in SomeBodies :
          SendOk(r, status, body)
    \/ \E r \in Requests : SendErr(r)
    \/ \E r \in Requests : ReadOk(r)
    \/ \E r \in Requests : ReadErr(r)
    \/ \E r \in Requests : Cancel(r)
    \/ \E d \in LiveDatagrams : Announce(d)
    \/ CleanLmStudio
    \/ CleanOllama
    \/ Tick

Spec == Init /\ [][Next]_vars

(***************************************************************************)
(* SpecRace: as Spec, with more requests, and nodes that announce both     *)
(* services under one id.                                                  *)
(***************************************************************************)
NextRace ==
    \/ \E r \in Racers, c \in Classes : Arrive(r, c)
    \/ \E r \in Racers : Occupy(r)
    \/ \E r \in Racers : NoCapacity(r)
    \/ \E r \in Racers : SleepPoll(r)
    \/ \E r \in Racers, status \in SomeStatuses, body \in SomeBodies :
          SendOk(r, status, body)
    \/ \E r \in Racers : SendErr(r)
    \/ \E r \in Racers : ReadOk(r)
    \/ \E r \in Racers : ReadErr(r)
    \/ \E r \in Racers : Cancel(r)
    \/ \E d \in RaceDatagrams : Announce(d)
    \/ CleanLmStudio
    \/ CleanOllama
    \/ Tick

SpecRace == Init /\ [][NextRace]_vars

(***************************************************************************)
(* Registries that are populated at the start: every node of ids has been  *)
(* announced at time 0 for the service(s) services gives it.               *)
(***************************************************************************)
AnnouncedAtStart(ids, services) ==
    [c \in Classes |->
        [id \in {i \in ids : c \in services[i]} |->
            NodeInfo(Available, Url("http", "10.0.0.5", 8000, "/v1"), 0)]]

(***************************************************************************)
(* SpecFixed: a fixed registry of K Available LM Studio nodes, no          *)
(* discovery and no cleanup, and concurrent requests.                      *)
(***************************************************************************)
LmStudioOnly == [id \in AllIds |-> {"lmstudio"}]

InitFixed ==
    /\ \E K \in 1..MaxFixedNodes :
          nodes = AnnouncedAtStart({IdName[i] : i \in 1..K}, LmStudioOnly)
    /\ now = 0
    /\ req = [r \in AllRequests |-> IdleRequest]
    /\ janitor = [pc |-> "sleep", wake_at |-> cleanup_interval]
    /\ removed_nodes = {}
    /\ write_guards = NoGuards
    /\ listener = IdleListener

NextFixed ==
    \/ \E r \in Racers, c \in Classes : Arrive(r, c)
    \/ \E r \in Racers : Occupy(r)
    \/ \E r \in Racers : NoCapacity(r)
    \/ \E r \in Racers : SleepPoll(r)
    \/ \E r \in Racers, status \in SomeStatuses, body \in SomeBodies :
          SendOk(r, status, body)
    \/ \E r \in Racers : SendErr(r)
    \/ \E r \in Racers : ReadOk(r)
    \/ \E r \in Racers : ReadErr(r)
    \/ \E r \in Racers : Cancel(r)
    \/ Tick

SpecFixed == InitFixed /\ [][NextFixed]_vars

(***************************************************************************)
(* SpecDispatch: the registries are populated at the start and no node     *)
(* announces again; the backends answer with every status and body.        *)
(***************************************************************************)
OneService == [id \in AllIds |-> {service_of(id)}]

InitDispatch ==
    /\ nodes = AnnouncedAtStart(NodeIds, OneService)
    /\ now = 0
    /\ req = [r \in AllRequests |-> IdleRequest]
    /\ janitor = [pc |-> "sleep", wake_at |-> cleanup_interval]
    /\ removed_nodes = {}
    /\ write_guards = NoGuards
    /\ listener = IdleListener

NextDispatch ==
    \/ \E r \in Requests, c \in Classes : Arrive(r, c)
    \/ \E r \in Requests : Occupy(r)
    \/ \E r \in Requests : NoCapacity(r)
    \/ \E r \in Requests : SleepPoll(r)
    \/ \E r \in Requests, status \in Statuses, body \in Bodies :
          SendOk(r, status, body)
    \/ \E r \in Requests : SendErr(r)
    \/ \E r \in Requests : ReadOk(r)
    \/ \E r \in Requests : ReadErr(r)
    \/ \E r \in Requests : Cancel(r)
    \/ CleanLmStudio
    \/ CleanOllama
    \/ Tick

SpecDispatch == InitDispatch /\ [][NextDispatch]_vars

(***************************************************************************)
(* SpecAdmission: the admission loop under the exact clock.  The LM Studio *)
(* registry is populated at the start, the Ollama registry is empty, and   *)
(* no node announces again.                                                *)
(***************************************************************************)
InitAdmission ==
    /\ nodes = AnnouncedAtStart(RaceIds, LmStudioOnly)
    /\ now = 0
    /\ req = [r \in AllRequests |-> IdleRequest]
    /\ janitor = [pc |-> "sleep", wake_at |-> cleanup_interval]
    /\ removed_nodes = {}
    /\ write_guards = NoGuards
    /\ listener = IdleListener

\* a request arrives during the first MaxArrivalPolls poll intervals
ArriveEarly(r, c) ==
    /\ now <= MaxArrivalPolls * queue_poll_interval
    /\ Arrive(r, c)

NextAdmission ==
    \/ \E r \in Racers, c \in Classes : ArriveEarly(r, c)
    \/ \E r \in Racers : Occupy(r)
    \/ \E r \in Racers : NoCapacity(r)
    \/ \E r \in Racers : SleepPoll(r)
    \/ \E r \in Racers, status \in SomeStatuses, body \in SomeBodies :
          SendOk(r, status, body)
    \/ \E r \in Racers : SendErr(r)
    \/ \E r \in Racers : ReadOk(r)
    \/ \E r \in Racers : ReadErr(r)
    \/ \E r \in Racers : Cancel(r)
    \/ CleanLmStudio
    \/ CleanOllama
    \/ ExactTick

SpecAdmission == InitAdmission /\ [][NextAdmission]_vars

(***************************************************************************)
(* SpecJanitor: discovery and cleanup under the exact clock.               *)
(***************************************************************************)
NextJanitor ==
    \/ \E d \in OneServiceDatagrams : Announce(d)
    \/ \E d \in DroppedDatagrams : Drop(d)
    \/ CleanLmStudio
    \/ CleanOllama
    \/ ExactTick

SpecJanitor == Init /\ [][NextJanitor]_vars

(***************************************************************************)
(* SpecDiscovery: the discovery listener with every kind of datagram and   *)
(* with receive errors, the cleanup task, and the coarse clock.  Every     *)
(* node announces one service, under a loopback URL, another URL or a      *)
(* string that is no URL; one sender announces an empty id.                *)
(***************************************************************************)
DiscoveryDatagrams ==
    DroppedDatagrams
    \cup
    { d \in Datagrams :
        /\ registry_of(d) # ""
        /\ \/ /\ d.parts[3] \in LiveIds
              /\ d.parts[2] = service_of(d.parts[3])
           \/ /\ d.parts[3] = ""
              /\ d.parts[2] = "lmstudio"
              /\ d.parts[4] = Url("http", "10.0.0.5", 8000, "/v1") }

NextDiscovery ==
    \/ \E d \in DiscoveryDatagrams : Announce(d)
    \/ \E d \in DiscoveryDatagrams : Drop(d)
    \/ RecvErr
    \/ RecvRetry
    \/ CleanLmStudio
    \/ CleanOllama
    \/ Tick

SpecDiscovery == Init /\ [][NextDiscovery]_vars

(***************************************************************************)
(* SpecClasses: nodes that run both services, each with a record in both   *)
(* registries from the start and announcing both; requests on both         *)
(* endpoints.  The behaviours are those of the first poll interval: no     *)
(* request has polled a second time and the cleanup task has not run.      *)
(***************************************************************************)
BothServices == [id \in AllIds |-> Classes]

InitClasses ==
    /\ nodes = AnnouncedAtStart(RaceIds, BothServices)
    /\ now = 0
    /\ req = [r \in AllRequests |-> IdleRequest]
    /\ janitor = [pc |-> "sleep", wake_at |-> cleanup_interval]
    /\ removed_nodes = {}
    /\ write_guards = NoGuards
    /\ listener = IdleListener

NextClasses ==
    \/ \E r \in Requests, c \in Classes : Arrive(r, c)
    \/ \E r \in Requests : Occupy(r)
    \/ \E r \in Requests, status \in Statuses, body \in Bodies :
          SendOk(r, status, body)
    \/ \E r \in Requests : SendErr(r)
    \/ \E r \in Requests : ReadOk(r)
    \/ \E r \in Requests : ReadErr(r)
    \/ \E r \in Requests : Cancel(r)
    \/ \E d \in RaceDatagrams : Announce(d)

SpecClasses == InitClasses /\ [][NextClasses]_vars

(***************************************************************************)
(* SpecSelect: requests on a registry that holds any set of nodes in any   *)
(* health, each node with its own URL; no discovery and no cleanup.        *)
(***************************************************************************)
HostName == <<"10.0.0.1", "10.0.0.2", "10.0.0.3", "10.0.0.4", "10.0.0.5">>

\* the URL node id announced
NodeUrl(id) ==
    Url("http", HostName[CHOOSE i \in 1..Len(IdName) : IdName[i] = id], 8000, "/v1")

InitSelect ==
    /\ \E ids \in SUBSET FixedIds :
       \E st \in [ids -> {Available, Busy, Failed(0)}] :
          nodes = [c \in Classes |->
                      IF c = "lmstudio"
                      THEN [id \in ids |-> NodeInfo(st[id], NodeUrl(id), 0)]
                      ELSE EmptyMap]
    /\ now = 0
    /\ req = [r \in AllRequests |-> IdleRequest]
    /\ janitor = [pc |-> "sleep", wake_at |-> cleanup_interval]
    /\ removed_nodes = {}
    /\ write_guards = NoGuards
    /\ listener = IdleListener

NextSelect ==
    \/ \E r \in Requests, c \in Classes : Arrive(r, c)
    \/ \E r \in Requests : Occupy(r)
    \/ \E r \in Requests : NoCapacity(r)
    \/ \E r \in Requests : SleepPoll(r)
    \/ \E r \in Requests, status \in SomeStatuses, body \in SomeBodies :
          SendOk(r, status, body)
    \/ \E r \in Requests : SendErr(r)
    \/ \E r \in Requests : ReadOk(r)
    \/ \E r \in Requests : ReadErr(r)
    \/ \E r \in Requests : Cancel(r)
    \/ Tick

SpecSelect == InitSelect /\ [][NextSelect]_vars

(***************************************************************************)
(* SpecEvict: the cleanup task under the exact clock, with a node that has *)
(* stopped announcing while a dispatch holds it.  HeldId was announced for *)
(* Ollama at time 0 and request 1 occupied it at once; the other nodes     *)
(* keep announcing their one service.                                      *)
(***************************************************************************)
HeldId == IdName[2]

HeldUrl == Url("http", "10.0.0.5", 8000, "/v1")

EvictDatagrams == { d \in OneServiceDatagrams : d.parts[3] # HeldId }

InitEvict ==
    /\ nodes = [c \in Classes |->
                  IF c = "ollama"
                  THEN insert(EmptyMap, HeldId, NodeInfo(Busy, HeldUrl, 0))
                  ELSE EmptyMap]
    /\ now = 0
    /\ req = [r \in AllRequests |->
                IF r = 1
                THEN [IdleRequest EXCEPT !.pc = "send", !.cls = "ollama",
                                         !.unique_node_id = HeldId,
                                         !.node_service_url = HeldUrl]
                ELSE IdleRequest]
    /\ janitor = [pc |-> "sleep", wake_at |-> cleanup_interval]
    /\ removed_nodes = {}
    /\ write_guards = NoGuards
    /\ listener = [IdleListener EXCEPT
                      !.inserted = [registry |-> "ollama", key |-> HeldId,
                                    old |-> NoUrl]]

NextEvict ==
    \/ \E d \in EvictDatagrams : Announce(d)
    \/ \E r \in Requests, status \in SomeStatuses, body \in SomeBodies :
          SendOk(r, status, body)
    \/ \E r \in Requests : SendErr(r)
    \/ \E r \in Requests : ReadOk(r)
    \/ \E r \in Requests : ReadErr(r)
    \/ CleanLmStudio
    \/ CleanOllama
    \/ ExactTick

SpecEvict == InitEvict /\ [][NextEvict]_vars

(***************************************************************************)
(* SpecLocks: the registries' locks.  Every registry operation is two      *)
(* steps of its task: nodes_lock.write() returns the guard once no other   *)
(* guard of the lock is alive, then the operation runs and the guard goes  *)
(* out of scope before the task reaches its next .await or returns.        *)
(***************************************************************************)
\* the datagrams of SpecLocks: one node announces its LM Studio service
LockDatagrams == { d \in OneServiceDatagrams : d.parts[3] = IdName[1] }

RequestTask(r) == [task |-> "request", r |-> r]
ListenerTask == [task |-> "listener", r |-> 0]
JanitorTask == [task |-> "janitor", r |-> 0]

\* RwLock::write returns: no guard of the lock of class c is alive
can_write(c) == write_guards[c] = {}

\* RwLock::write: the guard it returns to task
write(guards, c, task) == [guards EXCEPT ![c] = @ \cup {task}]

\* a bug: the guard outlives the operation
drop_guard_leaked(guards, c, task) == guards

\* the guard of task goes out of scope
drop_guard(guards, c, task) == [guards EXCEPT ![c] = @ \ {task}]

\* find_and_occupy_node: nodes_lock.write().unwrap()
FindLock(r) ==
    /\ CanPoll(r)
    /\ can_write(req[r].cls)
    /\ req' = [req EXCEPT ![r].pc = "find"]
    /\ write_guards' = write(write_guards, req[r].cls, RequestTask(r))
    /\ UNCHANGED <<nodes, now, janitor, removed_nodes, listener>>

\* find_and_occupy_node returns Some(found); forward_request(...).await
FindSome(r) ==
    /\ req[r].pc = "find"
    /\ \E res \in find_and_occupy_node(nodes[req[r].cls]) :
        /\ res.found
        /\ nodes' = [nodes EXCEPT ![req[r].cls] = res.nodes]
        /\ req' = [req EXCEPT ![r].pc = "send",
                              ![r].start_time = 0, ![r].wake_at = 0,
                              ![r].unique_node_id = res.unique_id,
                              ![r].node_service_url = res.service_url]
    /\ write_guards' = drop_guard(write_guards, req[r].cls, RequestTask(r))
    /\ UNCHANGED <<now, janitor, removed_nodes, listener>>

\* find_and_occupy_node returns None, the queue timeout has elapsed: 503
FindNoneTimeout(r) ==
    /\ req[r].pc = "find"
    /\ \E res \in find_and_occupy_node(nodes[req[r].cls]) :
        /\ ~res.found
        /\ timed_out(req[r].start_time, now)
        /\ nodes' = [nodes EXCEPT ![req[r].cls] = res.nodes]
        /\ req' = [req EXCEPT ![r].pc = "done", ![r].outcome = "NoCapacity",
                              ![r].wake_at = 0,
                              ![r].returned =
                                  HttpResponse(ServiceUnavailable,
                                               "No hay nodos disponibles")]
    /\ write_guards' = drop_guard(write_guards, req[r].cls, RequestTask(r))
    /\ UNCHANGED <<now, janitor, removed_nodes, listener>>

\* find_and_occupy_node returns None; sleep(queue_poll_interval).await
FindNoneSleep(r) ==
    /\ req[r].pc = "find"
    /\ \E res \in find_and_occupy_node(nodes[req[r].cls]) :
        /\ ~res.found
        /\ ~timed_out(req[r].start_time, now)
        /\ nodes' = [nodes EXCEPT ![req[r].cls] = res.nodes]
        /\ req' = [req EXCEPT ![r].pc = "sleep",
                              ![r].wake_at = poll_deadline(now)]
    /\ write_guards' = drop_guard(write_guards, req[r].cls, RequestTask(r))
    /\ UNCHANGED <<now, janitor, removed_nodes, listener>>

\* the outcomes of a dispatch and the .await each one resumes from
DispatchOutcomes == {"Forwarded", "BackendReadError", "BackendUnreachable"}

resumes_from(outcome) == IF outcome = "BackendUnreachable" THEN "send" ELSE "read"

\* the .await of the dispatch completes with outcome;
\* update_node_state: nodes_lock.write().unwrap()
UpdateLock(r, outcome) ==
    /\ req[r].pc = resumes_from(outcome)
    /\ can_write(req[r].cls)
    /\ req' = [req EXCEPT ![r].pc = "update", ![r].outcome = outcome]
    /\ write_guards' = write(write_guards, req[r].cls, RequestTask(r))
    /\ UNCHANGED <<nodes, now, janitor, removed_nodes, listener>>

\* update_node_state writes the health and returns; the handler returns
Update(r) ==
    /\ req[r].pc = "update"
    /\ LET health == IF req[r].outcome = "Forwarded"
                      THEN new_health(req[r].response.status, now)
                      ELSE error_health(now)
           returned ==
               CASE req[r].outcome = "Forwarded" ->
                        HttpResponse(req[r].response.status,
                                     req[r].response.body)
                 [] req[r].outcome = "BackendReadError" ->
                        HttpResponse(InternalServerError,
                                     "Error leyendo respuesta")
                 [] OTHER ->
                        HttpResponse(InternalServerError, "Error reenviando")
       IN  /\ nodes' = [nodes EXCEPT ![req[r].cls] =
                          update_node_state(@, req[r].unique_node_id, health)]
           /\ req' = [req EXCEPT
                        ![r].pc = "done",
                        ![r].node_service_url = NoUrl,
                        ![r].response =
                            IF req[r].outcome = "Forwarded" THEN @
                            ELSE NoResponse,
                        ![r].updates = Append(@, health.tag),
                        ![r].returned = returned]
    /\ write_guards' = drop_guard(write_guards, req[r].cls, RequestTask(r))
    /\ UNCHANGED <<now, janitor, removed_nodes, listener>>

\* udp_discovery_listener: a datagram is received; lock.write().unwrap()
InsertLock(d) ==
    /\ listener.pc = "recv"
    /\ registry_of(d) # ""
    /\ can_write(registry_of(d))
    /\ listener' = [listener EXCEPT
                      !.pc = "insert",
                      !.inserted =
                          [registry |-> registry_of(d), key |-> d.parts[3],
                           old |-> replaced_url(nodes[registry_of(d)],
                                                d.parts[3])]]
    /\ write_guards' = write(write_guards, registry_of(d), ListenerTask)
    /\ UNCHANGED <<nodes, now, req, janitor, removed_nodes>>

\* udp_discovery_listener: nodes.insert, then back to recv_from(...).await
Insert(d) ==
    /\ listener.pc = "insert"
    /\ registry_of(d) = listener.inserted.registry
    /\ d.parts[3] = listener.inserted.key
    /\ listener' = [listener EXCEPT !.pc = "recv"]
    /\ nodes' = [nodes EXCEPT ![registry_of(d)] =
                    upsert(@, d.parts[3],
                           effective_service_url(d.parts[4], d.src), now)]
    /\ write_guards' = drop_guard(write_guards, registry_of(d), ListenerTask)
    /\ UNCHANGED <<now, req, janitor, removed_nodes>>

\* cleanup task: the sleep has completed; lm_studio_nodes.write()
LockLmStudio ==
    /\ janitor.pc = "sleep"
    /\ now >= janitor.wake_at
    /\ can_write("lmstudio")
    /\ janitor' = [janitor EXCEPT !.pc = "lmstudio_guard"]
    /\ write_guards' = write(write_guards, "lmstudio", JanitorTask)
    /\ UNCHANGED <<nodes, now, req, removed_nodes, listener>>

\* cleanup task: remove_stale_nodes on lm_studio_nodes, the match ends
RetainLmStudio ==
    /\ janitor.pc = "lmstudio_guard"
    /\ nodes' = [nodes EXCEPT !["lmstudio"] =
                    remove_stale_nodes(@, now, node_inactivity_timeout)]
    /\ removed_nodes' = DOMAIN nodes["lmstudio"] \ DOMAIN nodes'["lmstudio"]
    /\ janitor' = [janitor EXCEPT !.pc = "ollama"]
    /\ write_guards' = drop_guard(write_guards, "lmstudio", JanitorTask)
    /\ UNCHANGED <<now, req, listener>>

\* cleanup task: ollama_nodes.write()
LockOllama ==
    /\ janitor.pc = "ollama"
    /\ can_write("ollama")
    /\ janitor' = [janitor EXCEPT !.pc = "ollama_guard"]
    /\ write_guards' = write(write_guards, "ollama", JanitorTask)
    /\ UNCHANGED <<nodes, now, req, removed_nodes, listener>>

\* cleanup task: remove_stale_nodes on ollama_nodes, the match ends, then
\* sleep(cleanup_interval).await
RetainOllama ==
    /\ janitor.pc = "ollama_guard"
    /\ nodes' = [nodes EXCEPT !["ollama"] =
                    remove_stale_nodes(@, now, node_inactivity_timeout)]
    /\ removed_nodes' = DOMAIN nodes["ollama"] \ DOMAIN nodes'["ollama"]
    /\ janitor' = [pc |-> "sleep", wake_at |-> cleanup_deadline(now)]
    /\ write_guards' = drop_guard(write_guards, "ollama", JanitorTask)
    /\ UNCHANGED <<now, req, listener>>

NextLocks ==
    \/ \E r \in Requests, c \in Classes : Arrive(r, c)
    \/ \E r \in Requests : FindLock(r)
    \/ \E r \in Requests : FindSome(r)
    \/ \E r \in Requests : FindNoneTimeout(r)
    \/ \E r \in Requests : FindNoneSleep(r)
    \/ \E r \in Requests, status \in SomeStatuses, body \in SomeBodies :
          SendOk(r, status, body)
    \/ \E r \in Requests, outcome \in DispatchOutcomes : UpdateLock(r, outcome)
    \/ \E r \in Requests : Update(r)
    \/ \E r \in Requests : Cancel(r)
    \/ \E d \in LockDatagrams : InsertLock(d)
    \/ \E d \in LockDatagrams : Insert(d)
    \/ RecvErr
    \/ RecvRetry
    \/ LockLmStudio
    \/ RetainLmStudio
    \/ LockOllama
    \/ RetainOllama
    \/ Tick

SpecLocks == Init /\ [][NextLocks]_vars

(***************************************************************************)
(* FairQueue: queueing.  One LM Studio node, announced at the start; two   *)
(* requests for LM Studio arrive during the first poll intervals; the      *)
(* backend answers every request with 200, at any time.  The runtime polls *)
(* every task that can run, the backend's answers arrive and time passes.  *)
(***************************************************************************)
QueueRequests == {1, 2}

InitQueue ==
    /\ nodes = AnnouncedAtStart({IdName[1]}, LmStudioOnly)
    /\ now = 0
    /\ req = [r \in AllRequests |-> IdleRequest]
    /\ janitor = [pc |-> "sleep", wake_at |-> cleanup_interval]
    /\ removed_nodes = {}
    /\ write_guards = NoGuards
    /\ listener = IdleListener

NextQueue ==
    \/ \E r \in QueueRequests : ArriveEarly(r, "lmstudio")
    \/ \E r \in QueueRequests : Occupy(r)
    \/ \E r \in QueueRequests : NoCapacity(r)
    \/ \E r \in QueueRequests : SleepPoll(r)
    \/ \E r \in QueueRequests : SendOk(r, 200, "ok")
    \/ \E r \in QueueRequests : ReadOk(r)
    \/ CleanLmStudio
    \/ CleanOllama
    \/ ExactTick

FairQueue ==
    /\ InitQueue
    /\ [][NextQueue]_vars
    /\ \A r \in QueueRequests :
          /\ WF_vars(Occupy(r))
          /\ WF_vars(NoCapacity(r))
          /\ WF_vars(SleepPoll(r))
          /\ WF_vars(SendOk(r, 200, "ok"))
          /\ WF_vars(ReadOk(r))
    /\ WF_vars(CleanLmStudio)
    /\ WF_vars(CleanOllama)
    /\ WF_vars(ExactTick)

(***************************************************************************)
(* FairRequests: termination of requests.  The admission loop and the      *)
(* dispatch under the exact clock, with backends that answer, fail or      *)
(* break off the body; no client disconnects.  The runtime polls every     *)
(* task that can run, every outbound call finishes (the client's timeout   *)
(* ends it if nothing else does) and time passes.                          *)
(***************************************************************************)
SendFinishes(r) ==
    \/ \E status \in SomeStatuses, body \in SomeBodies : SendOk(r, status, body)
    \/ SendErr(r)

ReadFinishes(r) == ReadOk(r) \/ ReadErr(r)

NextRequests ==
    \/ \E r \in QueueRequests, c \in Classes : ArriveEarly(r, c)
    \/ \E r \in QueueRequests : Occupy(r)
    \/ \E r \in QueueRequests : NoCapacity(r)
    \/ \E r \in QueueRequests : SleepPoll(r)
    \/ \E r \in QueueRequests, status \in SomeStatuses, body \in SomeBodies :
          SendOk(r, status, body)
    \/ \E r \in QueueRequests : SendErr(r)
    \/ \E r \in QueueRequests : ReadOk(r)
    \/ \E r \in QueueRequests : ReadErr(r)
    \/ CleanLmStudio
    \/ CleanOllama
    \/ ExactTick

FairRequests ==
    /\ InitAdmission
    /\ [][NextRequests]_vars
    /\ \A r \in QueueRequests :
          /\ WF_vars(Occupy(r))
          /\ WF_vars(NoCapacity(r))
          /\ WF_vars(SleepPoll(r))
          /\ WF_vars(SendFinishes(r))
          /\ WF_vars(ReadFinishes(r))
    /\ WF_vars(CleanLmStudio)
    /\ WF_vars(CleanOllama)
    /\ WF_vars(ExactTick)

(***************************************************************************)
(* SpecHolders: two requests that no client abandons, with discovery, the  *)
(* cleanup task and the coarse clock.                                      *)
(***************************************************************************)
NextHolders ==
    \/ \E r \in QueueRequests, c \in Classes : Arrive(r, c)
    \/ \E r \in QueueRequests : Occupy(r)
    \/ \E r \in QueueRequests : NoCapacity(r)
    \/ \E r \in QueueRequests : SleepPoll(r)
    \/ \E r \in QueueRequests, status \in SomeStatuses, body \in SomeBodies :
          SendOk(r, status, body)
    \/ \E r \in QueueRequests : SendErr(r)
    \/ \E r \in QueueRequests : ReadOk(r)
    \/ \E r \in QueueRequests : ReadErr(r)
    \/ \E d \in LiveDatagrams : Announce(d)
    \/ CleanLmStudio
    \/ CleanOllama
    \/ Tick

SpecHolders == Init /\ [][NextHolders]_vars

(***************************************************************************)
(* SpecLive: nodes that keep announcing, under the exact clock.  The node  *)
(* program sends its datagram every 10 s; here the listener receives the   *)
(* datagrams of a node at any intervals of at most max_receipt_gap, at     *)
(* every phase of the cleanup task's wake-ups.                             *)
(***************************************************************************)
\* ticker = interval(Duration::from_secs(10))
announce_interval == 10000

\* the longest time between two receipts of a node's datagram
max_receipt_gap == node_inactivity_timeout

\* time passes, no further than the next receipt of every node is due
LiveTick ==
    /\ ExactTick
    /\ announce_interval <= max_receipt_gap
    /\ \A c \in Classes : \A id \in DOMAIN nodes[c] :
          now' - nodes[c][id].last_seen <= max_receipt_gap

NextLive ==
    \/ \E d \in LiveDatagrams : Announce(d)
    \/ CleanLmStudio
    \/ CleanOllama
    \/ LiveTick

SpecLive == Init /\ [][NextLive]_vars

(***************************************************************************)
(* Properties.                                                             *)
(***************************************************************************)
\* request r is an in-flight dispatch on node id of registry c: it has
\* occupied id and has not yet called update_node_state
Holds(r, c, id) ==
    /\ req[r].pc \in {"send", "read"}
    /\ req[r].cls = c
    /\ req[r].unique_node_id = id

Holders(c, id) == {r \in AllRequests : Holds(r, c, id)}

BusyIds(c) == {id \in DOMAIN nodes[c] : nodes[c][id].state = Busy}

\* the requests that have arrived for class c
Arrived(c) == {r \in AllRequests : req[r].cls = c}

\* a step in which the dispatch of r runs to an outcome
Completes(r) == SendErr(r) \/ ReadOk(r) \/ ReadErr(r)

\* C1: under every interleaving of admissions, completions, upserts and
\* evictions, no node id is held by two in-flight dispatches at once.
C1_MutualExclusion ==
    \A c \in Classes, id \in AllIds : Cardinality(Holders(c, id)) <= 1

\* C2 (P1): with a fixed registry of K Available nodes and N requests, the
\* number of Busy entries is at most min(N, K) and no two in-flight
\* dispatches hold the same node id.
C2_FixedRegistryExclusion ==
    \A c \in Classes :
        /\ Cardinality(BusyIds(c)) <= Cardinality(Arrived(c))
        /\ Cardinality(BusyIds(c)) <= Cardinality(DOMAIN nodes[c])
        /\ \A id \in DOMAIN nodes[c] : Cardinality(Holders(c, id)) <= 1

\* C2, witness: every node of the fixed registry is held by a dispatch and
\* one more request is waiting in the admission loop.
C2_Witness ==
    \E c \in Classes, r \in AllRequests :
        /\ req[r].pc = "sleep" /\ req[r].cls = c
        /\ DOMAIN nodes[c] # {}
        /\ \A id \in DOMAIN nodes[c] : Cardinality(Holders(c, id)) = 1

\* C3 (I1): for every record, health = Busy implies that exactly one
\* in-flight dispatch holds that node id.
C3_BusyHasExactlyOneHolder ==
    \A c \in Classes : \A id \in BusyIds(c) : Cardinality(Holders(c, id)) = 1

\* C4: a dispatch that runs to an outcome issues exactly one
\* update_node_state for the id it occupied, with Available or Failed, and
\* the record, if it still exists, is not Busy right after that update.
C4_NoLeakOnCompletion ==
    [][\A r \in AllRequests : Completes(r) =>
          /\ req[r].updates = <<>>
          /\ Len(req'[r].updates) = 1
          /\ req'[r].updates[1] \in {"Available", "Failed"}
          /\ req[r].unique_node_id \in DOMAIN nodes'[req[r].cls] =>
                nodes'[req[r].cls][req[r].unique_node_id].state.tag
                    = req'[r].updates[1]]_vars

\* C4, witness: a dispatch has run to an outcome and the record of the node
\* it occupied exists and is Failed.
C4_Witness ==
    \E r \in AllRequests :
        /\ req[r].pc = "done" /\ Len(req[r].updates) = 1
        /\ req[r].unique_node_id \in DOMAIN nodes[req[r].cls]
        /\ nodes[req[r].cls][req[r].unique_node_id].state = Failed(now)

\* C5: a request cancelled after it occupied a node has issued an update
\* for that node, so that the node does not remain Busy.
C5_CancelledDispatchReleasesNode ==
    \A r \in AllRequests :
        (req[r].pc = "cancelled" /\ req[r].unique_node_id # "")
            => Len(req[r].updates) >= 1

\* C6 (P3): counted in the polling loop's own sleeps, a request is in the
\* admission loop for at most queue_timeout + poll_interval: by then it has
\* occupied a node or has returned NoCapacity.
C6_TimeoutBound ==
    \A r \in AllRequests :
        req[r].pc \in {"admit", "sleep"} =>
            now - req[r].start_time <= queue_timeout + queue_poll_interval

\* C6, witness: a request has returned NoCapacity exactly queue_timeout +
\* poll_interval after its arrival, while the node was held by a dispatch.
C6_Witness ==
    \E r \in AllRequests :
        /\ req[r].outcome = "NoCapacity"
        /\ now - req[r].start_time = queue_timeout + queue_poll_interval
        /\ BusyIds(req[r].cls) # {}

\* C7: a request that has occupied no node (it ends with NoCapacity, or is
\* cancelled in the admission loop) changes no record of either registry in
\* any of its steps.
C7_FailedAdmissionChangesNothing ==
    [][\A r \in AllRequests :
          /\ (req'[r] # req[r] /\ req'[r].unique_node_id = "") => nodes' = nodes
          /\ (req'[r].outcome = "NoCapacity" \/ (Cancel(r) /\ req[r].pc = "sleep"))
                => req'[r].unique_node_id = ""]_vars

\* C7, witness: a request has returned NoCapacity on a registry that holds
\* a record.
C7_Witness ==
    \E r \in AllRequests :
        /\ req[r].outcome = "NoCapacity"
        /\ DOMAIN nodes[req[r].cls] # {}

\* C8 (P4/P5): when the body of a backend response is read to completion
\* the proxy returns the backend's status and body unchanged, and the node
\* is set to Available iff the status is 2xx and to Failed otherwise.
C8_ResponseFaithful ==
    [][\A r \in AllRequests : ReadOk(r) =>
          LET status == req[r].response.status
              health == IF status \in 200..299 THEN "Available" ELSE "Failed"
          IN  /\ req'[r].returned.status = status
              /\ req'[r].returned.body = req[r].response.body
              /\ req'[r].updates = <<health>>
              /\ req[r].unique_node_id \in DOMAIN nodes'[req[r].cls] =>
                    nodes'[req[r].cls][req[r].unique_node_id].state.tag = health]_vars

\* C8, witness: a backend's 500 "boom" has been passed through and its node
\* is Failed.
C8_Witness ==
    \E r \in AllRequests :
        /\ req[r].outcome = "Forwarded"
        /\ req[r].returned = HttpResponse(500, "boom")
        /\ req[r].unique_node_id \in DOMAIN nodes[req[r].cls]
        /\ nodes[req[r].cls][req[r].unique_node_id].state.tag = "Failed"

\* C9: a transport failure or a body-read failure ends the request with
\* HTTP 500 and sets the occupied node to Failed.
C9_BackendFailure ==
    [][\A r \in AllRequests : (SendErr(r) \/ ReadErr(r)) =>
          /\ req'[r].pc = "done"
          /\ req'[r].returned.status = 500
          /\ req'[r].updates = <<"Failed">>
          /\ req[r].unique_node_id \in DOMAIN nodes'[req[r].cls] =>
                nodes'[req[r].cls][req[r].unique_node_id].state.tag = "Failed"]_vars

\* C9, witness: a request has ended with 500 after a body-read failure and
\* the node it occupied is Failed.
C9_Witness ==
    \E r \in AllRequests :
        /\ req[r].outcome = "BackendReadError"
        /\ req[r].returned.status = 500
        /\ req[r].unique_node_id \in DOMAIN nodes[req[r].cls]
        /\ nodes[req[r].cls][req[r].unique_node_id].state.tag = "Failed"

\* C10 (P7): with an exact cleanup timer, a record is never older than
\* inactivity_timeout + cleanup_interval: a node last heard at t is absent
\* after t + inactivity_timeout + cleanup_interval.
C10_EvictionBound ==
    \A c \in Classes : \A id \in DOMAIN nodes[c] :
        now - nodes[c][id].last_seen <= node_inactivity_timeout + cleanup_interval

\* C10, witness: the cleanup task has just removed a node, which is in
\* neither registry.
C10_Witness ==
    /\ removed_nodes # {}
    /\ \A id \in removed_nodes, c \in Classes : id \notin DOMAIN nodes[c]

\* the registry and the key of an accepted datagram
class_of(d) == registry_of(d)
id_of(d) == d.parts[3]

\* C11 (P6): receiving again a datagram whose record is present leaves
\* exactly one record for the id in the class's registry, with the same
\* endpoint URL, and last_seen equal to the time of this receipt.
C11_DiscoveryIdempotent ==
    [][\A d \in DiscoveryDatagrams :
          (/\ Announce(d)
           /\ id_of(d) \in DOMAIN nodes[class_of(d)]
           /\ nodes[class_of(d)][id_of(d)].service_url
                 = effective_service_url(d.parts[4], d.src))
          => /\ DOMAIN nodes'[class_of(d)] = DOMAIN nodes[class_of(d)]
             /\ nodes'[class_of(d)][id_of(d)].service_url
                   = nodes[class_of(d)][id_of(d)].service_url
             /\ nodes'[class_of(d)][id_of(d)].last_seen = now]_vars

\* C11, witness: the last datagram was inserted over a record of its id
\* with the same URL, after time has passed, and the record carries the
\* time of this receipt.
C11_Witness ==
    \E c \in Classes : \E id \in DOMAIN nodes[c] :
        /\ id # "" /\ now > 0
        /\ listener.inserted =
              [registry |-> c, key |-> id, old |-> nodes[c][id].service_url]
        /\ nodes[c][id].last_seen = now

\* the wire grammar DISCOVER,<service_class>,<node_id>,<service_url>
grammar_ok(d) ==
    /\ Len(d.parts) = 4
    /\ d.parts[1] = "DISCOVER"
    /\ d.parts[2] \in Classes
    /\ d.parts[3] # ""
    /\ "host" \in DOMAIN d.parts[4]

\* C12 (P9): a datagram that fails the wire grammar, an empty node_id and
\* a fourth field that is no absolute URL included, leaves both registries
\* unchanged.
C12_MalformedDrop ==
    [][\A d \in DiscoveryDatagrams :
          (~grammar_ok(d) /\ (Announce(d) \/ Drop(d))) => nodes' = nodes]_vars

\* a wrong field count, a missing DISCOVER prefix or an unknown class
listed_malformed(d) ==
    \/ Len(d.parts) # 4
    \/ d.parts[1] # "DISCOVER"
    \/ d.parts[2] \notin Classes

\* C13: a datagram with a wrong field count, a missing DISCOVER prefix or
\* an unknown service class changes neither registry and leaves the
\* listener receiving; a receive error leaves the registries unchanged and
\* the listener sleeping, after which it receives again; the listener is
\* never in another position.
C13_ListedMalformedDropped ==
    [][/\ \A d \in DiscoveryDatagrams :
             (listed_malformed(d) /\ (Announce(d) \/ Drop(d)))
             => (nodes' = nodes /\ listener'.pc = "recv")
       /\ RecvErr => (nodes' = nodes /\ listener'.pc = "sleep")
       /\ RecvRetry => (nodes' = nodes /\ listener'.pc = "recv")
       /\ listener'.pc \in {"recv", "sleep"}]_vars

\* C13, witness: after a receive error the listener has resumed and has
\* upserted a datagram received after its sleep.
C13_Witness ==
    \E c \in Classes : \E id \in DOMAIN nodes[c] :
        /\ listener.pc = "recv"
        /\ listener.wake_at > 0
        /\ listener.inserted.registry = c /\ listener.inserted.key = id
        /\ nodes[c][id].last_seen >= listener.wake_at

\* the port and the path a URL string denotes
port_of(u) == IF u.port = 0 THEN default_port(u.scheme) ELSE u.port
path_of(u) == IF u.path = "" THEN "/" ELSE u.path

C17_FreshAfterEviction ==
    [][\A d \in DiscoveryDatagrams :
          (Announce(d) /\ id_of(d) \notin DOMAIN nodes[class_of(d)]) =>
             /\ id_of(d) \in DOMAIN nodes'[class_of(d)]
             /\ nodes'[class_of(d)][id_of(d)] =
                   NodeInfo(Available,
                            effective_service_url(d.parts[4], d.src), now)]_vars

\* C17, witness: an id removed by the last cleanup pass has been announced
\* again and has a record created at the current time.
C17_Witness ==
    \E c \in Classes : \E id \in DOMAIN nodes[c] :
        /\ id \in removed_nodes
        /\ listener.inserted = [registry |-> c, key |-> id, old |-> NoUrl]
        /\ nodes[c][id].state = Available
        /\ nodes[c][id].last_seen = now /\ now > 0

\* C15: a record whose health is Failed stays Failed until a datagram for
\* its id is processed or the record is evicted: no admission, dispatch
\* completion or timer step makes it Available or Busy.
C15_FailedUntilAnnounced ==
    [][\A c \in Classes : \A id \in DOMAIN nodes[c] :
          (/\ nodes[c][id].state.tag = "Failed"
           /\ id \in DOMAIN nodes'[c]
           /\ nodes'[c][id].state.tag # "Failed")
          => \E d \in RaceDatagrams :
                Announce(d) /\ class_of(d) = c /\ id_of(d) = id]_vars

\* C16 (I4): while a record exists its last_seen never decreases; only the
\* processing of a datagram for its id changes it, and sets it to the
\* current time.
C16_LastSeenMonotone ==
    [][\A c \in Classes : \A id \in DOMAIN nodes[c] \cap DOMAIN nodes'[c] :
          /\ nodes'[c][id].last_seen >= nodes[c][id].last_seen
          /\ nodes'[c][id].last_seen # nodes[c][id].last_seen =>
                /\ nodes'[c][id].last_seen = now
                /\ \E d \in LiveDatagrams :
                      Announce(d) /\ class_of(d) = c /\ id_of(d) = id]_vars

\* C16, witness: a record that was announced again after time had passed
\* has then been occupied and set to Failed by a dispatch, and still carries
\* the time of the announcement.
C16_Witness ==
    \E r \in AllRequests :
        /\ req[r].pc = "done" /\ req[r].updates = <<"Failed">>
        /\ req[r].unique_node_id \in DOMAIN nodes[req[r].cls]
        /\ LET info == nodes[req[r].cls][req[r].unique_node_id]
           IN  /\ info.state.tag = "Failed"
               /\ info.last_seen > 0
               /\ listener.inserted.key = req[r].unique_node_id
               /\ listener.inserted.old # NoUrl

C18_RegistryIndependence ==
    [][/\ \A d \in RaceDatagrams : Announce(d) =>
             \A c \in Classes \ {d.parts[2]} : nodes'[c] = nodes[c]
       /\ \A r \in AllRequests : req'[r] # req[r] =>
             /\ \A c \in Classes \ {req'[r].cls} : nodes'[c] = nodes[c]
             /\ Occupy(r) =>
                   /\ req'[r].unique_node_id \in DOMAIN nodes[req[r].cls]
                   /\ nodes[req[r].cls][req'[r].unique_node_id].state = Available
                   /\ nodes'[req[r].cls][req'[r].unique_node_id].state = Busy]_vars

\* C18, witness: a node id has a record in both registries; a dispatch on
\* one endpoint has set its record Failed while the record of the other
\* class, announced last, is Available.
C18_Witness ==
    \E r \in AllRequests : \E c \in Classes \ {req[r].cls} :
        /\ req[r].pc = "done" /\ req[r].updates = <<"Failed">>
        /\ req[r].unique_node_id \in DOMAIN nodes[req[r].cls] \cap DOMAIN nodes[c]
        /\ nodes[req[r].cls][req[r].unique_node_id].state.tag = "Failed"
        /\ nodes[c][req[r].unique_node_id].state = Available
        /\ listener.inserted.registry = c
        /\ listener.inserted.key = req[r].unique_node_id

\* the Available ids of a registry
AvailableIds(reg) == {id \in DOMAIN reg : reg[id].state = Available}

\* C19: find_and_occupy_node is an atomic test-and-set.  With an Available
\* record it changes exactly one record, from Available to Busy, returns
\* its id and URL and leaves every other record, and that record's URL and
\* last_seen, unchanged; it never returns a Busy or Failed record; with no
\* Available record it returns none and changes nothing.
C19_AtomicTestAndSet ==
    [][/\ \A c \in Classes :
             LET reg == nodes[c]
             IN  /\ find_and_occupy_node(reg) # {}
                 /\ \A res \in find_and_occupy_node(reg) :
                       IF AvailableIds(reg) # {}
                       THEN /\ res.found
                            /\ res.unique_id \in AvailableIds(reg)
                            /\ res.service_url = reg[res.unique_id].service_url
                            /\ DOMAIN res.nodes = DOMAIN reg
                            /\ res.nodes[res.unique_id] =
                                  [reg[res.unique_id] EXCEPT !.state = Busy]
                            /\ \A id \in DOMAIN reg \ {res.unique_id} :
                                  res.nodes[id] = reg[id]
                       ELSE ~res.found /\ res.nodes = reg
       /\ \A r \in AllRequests :
             /\ Occupy(r) =>
                   LET reg == nodes[req[r].cls]
                       id == req'[r].unique_node_id
                   IN  /\ id \in AvailableIds(reg)
                       /\ req'[r].node_service_url = reg[id].service_url
                       /\ nodes'[req[r].cls] = [reg EXCEPT ![id].state = Busy]
             /\ (SleepPoll(r) \/ NoCapacity(r)) =>
                   /\ AvailableIds(nodes[req[r].cls]) = {}
                   /\ nodes' = nodes]_vars

\* C19, witness: a request has occupied one of two Available nodes of a
\* registry that also holds a Busy or Failed one; it has that node's URL,
\* and the other Available node is still Available.
C19_Witness ==
    \E r \in AllRequests :
        LET reg == nodes[req[r].cls]
        IN  /\ req[r].pc = "send"
            /\ req[r].unique_node_id \in DOMAIN reg
            /\ reg[req[r].unique_node_id].state = Busy
            /\ req[r].node_service_url = NodeUrl(req[r].unique_node_id)
            /\ AvailableIds(reg) # {}
            /\ \E id \in DOMAIN reg : reg[id].state.tag = "Failed"

\* C21: one pass of the cleanup task over a registry removes exactly the
\* records with now - last_seen > inactivity_timeout, whatever their health
\* (a record as old as the threshold stays, a Busy record goes like any
\* other), and leaves every record it retains as it was.
C21_EvictionRule ==
    [][\A c \in Classes :
          (IF c = "lmstudio" THEN CleanLmStudio ELSE CleanOllama)
          => /\ DOMAIN nodes'[c]
                   = { id \in DOMAIN nodes[c] :
                         now - nodes[c][id].last_seen
                             <= node_inactivity_timeout }
             /\ \A id \in DOMAIN nodes'[c] : nodes'[c][id] = nodes[c][id]
             /\ removed_nodes' = DOMAIN nodes[c] \ DOMAIN nodes'[c]
             /\ \A o \in Classes \ {c} : nodes'[o] = nodes[o]]_vars

\* C21, witness: one wake-up of the cleanup task has kept an LM Studio
\* record that is exactly inactivity_timeout old and has removed the Ollama
\* record of HeldId, which was Busy: its dispatch is still in flight and
\* no datagram has replaced the record.
C21_Witness ==
    /\ janitor.pc = "sleep"
    /\ janitor.wake_at = cleanup_deadline(now)
    /\ removed_nodes = {HeldId}
    /\ HeldId \notin DOMAIN nodes["ollama"]
    /\ req[1].pc = "send"
    /\ req[1].unique_node_id = HeldId
    /\ \E id \in DOMAIN nodes["lmstudio"] :
          now - nodes["lmstudio"][id].last_seen = node_inactivity_timeout

\* C22: the ids of a registry grow only by an insert of the discovery
\* listener and shrink only by a pass of the cleanup task; a dispatch that
\* completes on an id that is no longer in the registry leaves both
\* registries as they were and still returns its response.
C22_OnlyDiscoveryAndCleanupResize ==
    [][/\ \A c \in Classes :
            /\ DOMAIN nodes'[c] \ DOMAIN nodes[c] # {}
                  => \E d \in LiveDatagrams : Announce(d) /\ registry_of(d) = c
            /\ DOMAIN nodes[c] \ DOMAIN nodes'[c] # {}
                  => IF c = "lmstudio" THEN CleanLmStudio ELSE CleanOllama
       /\ \A r \in Requests :
            (/\ Completes(r)
             /\ req[r].unique_node_id \notin DOMAIN nodes[req[r].cls])
            => /\ nodes' = nodes
               /\ req'[r].pc = "done"
               /\ req[r].pc = "read" /\ req'[r].outcome = "Forwarded"
                     => req'[r].returned
                           = HttpResponse(req[r].response.status,
                                          req[r].response.body)
               /\ req'[r].outcome # "Forwarded"
                     => req'[r].returned.status = InternalServerError]_vars

\* C22, witness: the cleanup task has removed the record of a node while
\* a dispatch on it is reading the backend's response, so the dispatch's
\* update_node_state will find the id absent.
C22_Witness ==
    \E r \in Requests :
        /\ req[r].pc = "read"
        /\ req[r].response.status = 200
        /\ req[r].unique_node_id \in removed_nodes
        /\ req[r].unique_node_id \notin DOMAIN nodes[req[r].cls]

\* the tasks of SpecLocks
Tasks == {RequestTask(r) : r \in Requests} \cup {ListenerTask, JanitorTask}

\* the task is at a suspension point: the admission sleep, the outbound
\* send or body read, the UDP receive or the receive-error backoff, the
\* cleanup sleep
Suspended(t) ==
    CASE t.task = "request" -> req[t.r].pc \in {"sleep", "send", "read"}
      [] t.task = "listener" -> listener.pc \in {"recv", "sleep"}
      [] OTHER -> janitor.pc = "sleep"

\* the task takes a step
Runs(t) ==
    CASE t.task = "request" -> req'[t.r] # req[t.r]
      [] t.task = "listener" -> listener' # listener
      [] OTHER -> janitor' # janitor

NoGuardWhileSuspended ==
    \A t \in Tasks : Suspended(t) => \A c \in Classes : t \notin write_guards[c]

\* C23: in every reachable state no task that is at a suspension point
\* holds a write guard of either registry; a registry changes only in a
\* step of the one task that holds its guard, and that step, the task's
\* next one after the acquisition, drops the guard.
C23_NoLockAcrossSuspension ==
    [][/\ NoGuardWhileSuspended
       /\ NoGuardWhileSuspended'
       /\ \A c \in Classes :
            /\ Cardinality(write_guards'[c]) <= 1
            /\ \A t \in write_guards[c] : Runs(t) => t \notin write_guards'[c]
            /\ nodes'[c] # nodes[c]
                  => \E t \in write_guards[c] :
                        Runs(t) /\ write_guards'[c] = {}]_vars

\* C23, witness: the cleanup task holds the guard of the LM Studio
\* registry while a request is suspended in its outbound send and the
\* listener in recv_from.
C23_Witness ==
    /\ write_guards["lmstudio"] = {JanitorTask}
    /\ janitor.pc = "lmstudio_guard"
    /\ listener.pc = "recv"
    /\ \E r \in Requests : req[r].pc = "send" /\ req[r].cls = "lmstudio"

\* a dispatch is still in flight when the queue timeout of a request that
\* waits for a node expires
DispatchLate ==
    \E w \in QueueRequests, h \in QueueRequests :
        /\ req[w].pc \in {"admit", "sleep"}
        /\ req[h].pc \in {"send", "read"}
        /\ now - req[w].start_time >= queue_timeout

\* C24 (scenario 3): with one Available node, a backend that always
\* answers 200 and two concurrent requests, unless a dispatch is still in
\* flight when the waiting request's queue timeout expires, no request
\* returns 503, and every request that has arrived eventually returns: 200
\* once it has occupied the node, 503 in that one case only.
C24_QueueingLiveness ==
    /\ [][\A w \in QueueRequests : NoCapacity(w) => DispatchLate]_vars
    /\ \A r \in QueueRequests :
          (req[r].pc # "idle")
              ~> (\/ req[r].returned.status = 200
                  \/ req[r].outcome = "NoCapacity")

\* C24, witness: the first dispatch has returned 200 and the node is
\* Available again while the other request, which has found the node Busy
\* at several polls, sleeps before its next poll and has not timed out.
C24_Witness ==
    \E w \in QueueRequests, h \in QueueRequests :
        /\ req[h].pc = "done"
        /\ req[h].returned.status = 200
        /\ req[w].pc = "sleep"
        /\ req[w].wake_at > 3 * queue_poll_interval
        /\ now - req[w].start_time < queue_timeout
        /\ nodes["lmstudio"][IdName[1]].state = Available

\* request r has returned one of the three outcomes of
\* handle_service_request
Returned(r) ==
    /\ req[r].pc = "done"
    /\ \/ /\ req[r].outcome = "Forwarded"
          /\ req[r].returned
                = HttpResponse(req[r].response.status, req[r].response.body)
       \/ /\ req[r].outcome = "NoCapacity"
          /\ req[r].returned.status = ServiceUnavailable
       \/ /\ req[r].outcome \in {"BackendUnreachable", "BackendReadError"}
          /\ req[r].returned.status = InternalServerError

\* C25: under fair scheduling, with time advancing and every outbound call
\* finishing, every request that has arrived eventually returns; it returns
\* once, one of the forwarded response, 503 or 500; until then it has
\* returned nothing, and its task ends nowhere else.
C25_RequestTerminates ==
    /\ [](\A r \in QueueRequests :
            /\ req[r].pc \in {"idle", "admit", "sleep", "send", "read", "done"}
            /\ req[r].pc = "done" => Returned(r)
            /\ req[r].pc # "done"
                  => req[r].returned = NoResponse /\ req[r].outcome = "")
    /\ [][\A r \in QueueRequests :
            req[r].pc = "done" => req'[r] = req[r]]_vars
    /\ \A r \in QueueRequests : (req[r].pc # "idle") ~> Returned(r)

\* C25, witness: one request has returned 503 after polling until its
\* queue timeout while the other was dispatched and has returned 500.
C25_Witness ==
    \E w \in QueueRequests, h \in QueueRequests :
        /\ Returned(w) /\ req[w].outcome = "NoCapacity"
        /\ req[w].cls = req[h].cls
        /\ Returned(h) /\ req[h].outcome = "BackendReadError"
        /\ now > queue_timeout

\* C26: a dispatch that completes on an id whose record is by now Busy
\* for a different dispatch that is still in flight (the id was announced
\* again and occupied again in the meantime) leaves the health of that
\* record Busy.
C26_StaleCompletionHarmless ==
    [][\A r \in Racers :
          (/\ Completes(r)
           /\ req[r].unique_node_id \in DOMAIN nodes[req[r].cls]
           /\ nodes[req[r].cls][req[r].unique_node_id].state = Busy
           /\ Holders(req[r].cls, req[r].unique_node_id) \ {r} # {})
          => nodes'[req[r].cls][req[r].unique_node_id].state = Busy]_vars

\* C27: when no request is cancelled, every Busy record has an in-flight
\* dispatch that occupied its id and has not yet called update_node_state,
\* so a registry has no more Busy records than in-flight dispatches.
C27_BusyHasHolder ==
    \A c \in Classes :
        /\ \A id \in BusyIds(c) : Holders(c, id) # {}
        /\ Cardinality(BusyIds(c))
              <= Cardinality({r \in QueueRequests :
                                req[r].cls = c /\ req[r].pc \in {"send", "read"}})

\* C27, witness: a record that a datagram has replaced while a dispatch
\* held it is Busy again, occupied by the second request, and the first
\* dispatch is still in flight on the same id.
C27_Witness ==
    \E c \in Classes, id \in AllIds :
        /\ id \in BusyIds(c)
        /\ listener.inserted.registry = c
        /\ listener.inserted.key = id
        /\ listener.inserted.old # NoUrl
        /\ Holders(c, id) = QueueRequests

\* C28: a node whose datagrams are received at intervals of at most
\* inactivity_timeout stays in its class's registry from its first receipt
\* on, whatever the phase of the cleanup task's wake-ups: no step removes
\* a record, and no pass of the cleanup task finds one to remove.
C28_LiveNodeNeverEvicted ==
    [][/\ \A c \in Classes : DOMAIN nodes[c] \subseteq DOMAIN nodes'[c]
       /\ removed_nodes' = {}]_vars

\* C28, witness: the cleanup task has just run while the record of a node
\* was exactly inactivity_timeout old, its next datagram being due at that
\* very time, and the record is still there.
C28_Witness ==
    /\ janitor.pc = "sleep"
    /\ janitor.wake_at = cleanup_deadline(now)
    /\ now >= 2 * cleanup_interval
    /\ \E id \in DOMAIN nodes["lmstudio"] :
          /\ now - nodes["lmstudio"][id].last_seen = node_inactivity_timeout
          /\ listener.inserted.key = id
          /\ listener.inserted.old # NoUrl

====
